---- MODULE Spec2Model ----
(***************************************************************************)
(* Model of app/database/repository.py: the Repository over the four       *)
(* tables youtube_videos, openai_articles, anthropic_articles and digests. *)
(*                                                                         *)
(* A table is the set of its rows, a row is a record of its columns.       *)
(* Python's None is the value None below; an Optional[int] / Optional      *)
(* [datetime] argument is <<>> (None) or <<n>>.  A datetime is an integer  *)
(* number of hours.                                                        *)
(*                                                                         *)
(* Spec     : one Repository (one session); every handler runs to its end. *)
(* SpecRace : NumCalls concurrent create_* calls, each on its own session  *)
(*            of the same database; a call is two steps, its query and its *)
(*            add + commit.                                                *)
(***************************************************************************)
EXTENDS Integers, Sequences, FiniteSets, TLC

\* ------------------------------------------------------------------ bounds
MaxBatch == 2
MaxLimit == 2
NumCalls == 2

\* ------------------------------------------------------------- input values
None == "<None>"
UNAVAILABLE == "__UNAVAILABLE__"

Ids == {"v1"}
ArticleTypes == {"youtube", "openai", "anthropic"}

\* Values a producer attaches as transcript / markdown (always a str).
Enrichments == {"", "transcript text", UNAVAILABLE}

\* What a producer passes to create_youtube_video / bulk_create_youtube_videos.
VideoItems ==
    UNION {{ [video_id |-> i, title |-> "T1", url |-> "u1", channel_id |-> "c1",
              published_at |-> 1, description |-> "d1", transcript |-> None],
             [video_id |-> i, title |-> "T2", url |-> "u2", channel_id |-> "c2",
              published_at |-> 2, description |-> "", transcript |-> "transcript text"] }
           : i \in Ids}

\* What a producer passes to create_openai_article / create_anthropic_article.
ArticleItems ==
    UNION {{ [guid |-> i, title |-> "T1", url |-> "u1", published_at |-> 1,
              description |-> "d1", category |-> None],
             [guid |-> i, title |-> "T2", url |-> "u2", published_at |-> 2,
              description |-> "", category |-> "cat"] }
           : i \in Ids}

\* What the summarization driver passes to create_digest.  A datetime is its
\* wall-clock hour and its tzinfo: <<>> when naive, <<k>> for the UTC offset of
\* k hours; published_at is <<>> for None and <<datetime>> otherwise.
DigestItems ==
    UNION {{ [article_type |-> t, article_id |-> i, url |-> "u1", title |-> "DT1",
              summary |-> "S1", published_at |-> <<>>],
             [article_type |-> t, article_id |-> i, url |-> "u2", title |-> "DT2",
              summary |-> "S2", published_at |-> <<[wall |-> 2, tzinfo |-> <<0>>]>>] }
           : <<t, i>> \in ArticleTypes \X Ids}

\* Readings of datetime.now(timezone.utc).
Clock == {3}

Limits == {<<>>} \cup {<<n>> : n \in 0..MaxLimit}

Batches(S) == UNION {[1..n -> S] : n \in 0..MaxBatch}

Calls == 1..NumCalls

\* -------------------------------------------------------------------- state
VARIABLES
    youtube_videos,      \* rows of YouTubeVideo
    openai_articles,     \* rows of OpenAIArticle
    anthropic_articles,  \* rows of AnthropicArticle
    digests,             \* rows of Digest
    last,                \* Spec: the last call, its key, its argument and what it returned
    pc                   \* SpecRace: per call, where it stands and what it returned

vars == <<youtube_videos, openai_articles, anthropic_articles, digests, last, pc>>
tables == <<youtube_videos, openai_articles, anthropic_articles, digests>>

\* ------------------------------------------------------------ python helpers
\* bool(x) of an Optional[str].
Truthy(s) == s # None /\ s # ""

\* a or b or c on Optional[str].
Or3(a, b, c) == IF Truthy(a) THEN a ELSE IF Truthy(b) THEN b ELSE c

\* "if limit:" on an Optional[int].
LimitGiven(limit) == limit # <<>> /\ limit[1] # 0

\* seq[:n]
Take(seq, n) == SubSeq(seq, 1, IF n < Len(seq) THEN n ELSE Len(seq))

\* query.limit(n).all() / articles[:limit], applied only "if limit:".
ApplyLimit(seq, limit) == IF LimitGiven(limit) THEN Take(seq, limit[1]) ELSE seq

\* A digest id that leaves out the article type.
DigestIdWithoutType(article_type, article_id) == article_id

\* f"{article_type}:{article_id}"
DigestId(article_type, article_id) == article_type \o ":" \o article_id

\* ------------------------------------------------------------- storage layer
\* query(...).all(): the rows of S in the order the database returns them.
RECURSIVE All(_)
All(S) == IF S = {} THEN <<>>
          ELSE LET r == CHOOSE x \in S : TRUE IN <<r>> \o All(S \ {r})

Range(seq) == {seq[i] : i \in 1..Len(seq)}

\* The uniqueness constraint of a table on its key: a commit that adds the
\* keys `new` (in order) to a table holding the keys `held` is rejected when a
\* key is already held or is added twice.
UniqueViolation(held, new) ==
    \/ \E i \in 1..Len(new) : new[i] \in held
    \/ \E i, j \in 1..Len(new) : i # j /\ new[i] = new[j]

\* ------------------------------------------------------------------- queries
\* query(YouTubeVideo).filter_by(video_id=video_id): first() is a row of it, or None.
\* Variants of the lookups below that filter on another column.
openai_by_url(guid) == {r \in openai_articles : r.url = guid}
digest_by_article_id(digest_id) == {r \in digests : r.article_id = digest_id}

youtube_by_id(video_id) == {r \in youtube_videos : r.video_id = video_id}
openai_by_guid(guid) == {r \in openai_articles : r.guid = guid}
anthropic_by_guid(guid) == {r \in anthropic_articles : r.guid = guid}
digest_by_id(digest_id) == {r \in digests : r.id = digest_id}

\* The rows the constructors YouTubeVideo(...), OpenAIArticle(...),
\* AnthropicArticle(...) and Digest(...) build.
YouTubeVideo(v) ==
    [video_id |-> v.video_id, title |-> v.title, url |-> v.url,
     channel_id |-> v.channel_id, published_at |-> v.published_at,
     description |-> v.description, transcript |-> v.transcript]

OpenAIArticle(a) ==
    [guid |-> a.guid, title |-> a.title, url |-> a.url,
     published_at |-> a.published_at, description |-> a.description,
     category |-> a.category]

AnthropicArticle(a) ==
    [guid |-> a.guid, title |-> a.title, url |-> a.url,
     published_at |-> a.published_at, description |-> a.description,
     category |-> a.category, markdown |-> None]

\* datetime.now(timezone.utc) at the clock reading now.
utc_now(now) == [wall |-> now, tzinfo |-> <<0>>]

\* published_at.replace(tzinfo=timezone.utc)
replace_tzinfo_utc(dt) == [dt EXCEPT !.tzinfo = <<0>>]

\* A created_at that is always the time of the call.
created_at_of_call(published_at, now) == utc_now(now)

\* created_at of create_digest: published_at if given, a naive one taken as
\* UTC, else now.
created_at_of(published_at, now) ==
    IF published_at # <<>>
    THEN IF published_at[1].tzinfo = <<>>
         THEN replace_tzinfo_utc(published_at[1])
         ELSE published_at[1]
    ELSE utc_now(now)

\* The created_at column holds a UTC timestamp: the instant of the aware
\* datetime it is given, as an hour of the UTC clock.
timestamp_utc(dt) == dt.wall - dt.tzinfo[1]

Digest(d, now) ==
    [id |-> DigestId(d.article_type, d.article_id),
     article_type |-> d.article_type, article_id |-> d.article_id,
     url |-> d.url, title |-> d.title, summary |-> d.summary,
     created_at |-> timestamp_utc(created_at_of(d.published_at, now))]

\* The key column of a video / an article, and the keys of a batch.
youtube_key(r) == r.video_id
guid_key(r) == r.guid
youtube_keys(videos) == [i \in 1..Len(videos) |-> youtube_key(videos[i])]
guid_keys(articles) == [i \in 1..Len(articles) |-> guid_key(articles[i])]

\* What a call left behind for its caller.
Result(op, key, arg, ret, n) == [op |-> op, key |-> key, arg |-> arg, ret |-> ret, n |-> n]

\* ------------------------------------------------------- Spec: the handlers
\* A create_youtube_video that writes the given columns over an existing row.
create_youtube_video_overwrite(v) ==
    /\ youtube_videos' = {r \in youtube_videos : r.video_id # v.video_id} \cup {YouTubeVideo(v)}
    /\ last' = Result("create_youtube_video", v.video_id, v,
                      IF youtube_by_id(v.video_id) # {} THEN "None" ELSE "Created", 0)
    /\ UNCHANGED <<openai_articles, anthropic_articles, digests, pc>>

create_youtube_video(v) ==
    /\ IF youtube_by_id(v.video_id) # {}
       THEN /\ last' = Result("create_youtube_video", v.video_id, v, "None", 0)
            /\ UNCHANGED youtube_videos
       ELSE IF UniqueViolation({r.video_id : r \in youtube_videos}, <<v.video_id>>)
       THEN /\ last' = Result("create_youtube_video", v.video_id, v, "Error", 0)
            /\ UNCHANGED youtube_videos
       ELSE /\ youtube_videos' = youtube_videos \cup {YouTubeVideo(v)}
            /\ last' = Result("create_youtube_video", v.video_id, v, "Created", 0)
    /\ UNCHANGED <<openai_articles, anthropic_articles, digests, pc>>

create_openai_article(a) ==
    /\ IF openai_by_guid(a.guid) # {}
       THEN /\ last' = Result("create_openai_article", a.guid, a, "None", 0)
            /\ UNCHANGED openai_articles
       ELSE IF UniqueViolation({r.guid : r \in openai_articles}, <<a.guid>>)
       THEN /\ last' = Result("create_openai_article", a.guid, a, "Error", 0)
            /\ UNCHANGED openai_articles
       ELSE /\ openai_articles' = openai_articles \cup {OpenAIArticle(a)}
            /\ last' = Result("create_openai_article", a.guid, a, "Created", 0)
    /\ UNCHANGED <<youtube_videos, anthropic_articles, digests, pc>>

create_anthropic_article(a) ==
    /\ IF anthropic_by_guid(a.guid) # {}
       THEN /\ last' = Result("create_anthropic_article", a.guid, a, "None", 0)
            /\ UNCHANGED anthropic_articles
       ELSE IF UniqueViolation({r.guid : r \in anthropic_articles}, <<a.guid>>)
       THEN /\ last' = Result("create_anthropic_article", a.guid, a, "Error", 0)
            /\ UNCHANGED anthropic_articles
       ELSE /\ anthropic_articles' = anthropic_articles \cup {AnthropicArticle(a)}
            /\ last' = Result("create_anthropic_article", a.guid, a, "Created", 0)
    /\ UNCHANGED <<youtube_videos, openai_articles, digests, pc>>

\* new_videos / new_articles: the items of the batch whose key has no row.
new_videos(videos) == SelectSeq(videos, LAMBDA v : youtube_by_id(v.video_id) = {})
new_openai_articles(articles) == SelectSeq(articles, LAMBDA a : openai_by_guid(a.guid) = {})
new_anthropic_articles(articles) == SelectSeq(articles, LAMBDA a : anthropic_by_guid(a.guid) = {})

\* A bulk_create_youtube_videos that counts the whole batch.
bulk_create_youtube_videos_count_all(videos) ==
    LET new == new_videos(videos) IN
    /\ IF new # <<>> /\ UniqueViolation({r.video_id : r \in youtube_videos},
                                        youtube_keys(new))
       THEN /\ last' = Result("bulk_create_youtube_videos", "", youtube_keys(videos), "Error", 0)
            /\ UNCHANGED youtube_videos
       ELSE /\ youtube_videos' = youtube_videos \cup {YouTubeVideo(new[i]) : i \in 1..Len(new)}
            /\ last' = Result("bulk_create_youtube_videos", "", youtube_keys(videos), "Count",
                              Len(videos))
    /\ UNCHANGED <<openai_articles, anthropic_articles, digests, pc>>

bulk_create_youtube_videos(videos) ==
    LET new == new_videos(videos) IN
    /\ IF new # <<>> /\ UniqueViolation({r.video_id : r \in youtube_videos},
                                        youtube_keys(new))
       THEN /\ last' = Result("bulk_create_youtube_videos", "", youtube_keys(videos), "Error", 0)
            /\ UNCHANGED youtube_videos
       ELSE /\ youtube_videos' = youtube_videos \cup {YouTubeVideo(new[i]) : i \in 1..Len(new)}
            /\ last' = Result("bulk_create_youtube_videos", "", youtube_keys(videos), "Count", Len(new))
    /\ UNCHANGED <<openai_articles, anthropic_articles, digests, pc>>

bulk_create_openai_articles(articles) ==
    LET new == new_openai_articles(articles) IN
    /\ IF new # <<>> /\ UniqueViolation({r.guid : r \in openai_articles},
                                        guid_keys(new))
       THEN /\ last' = Result("bulk_create_openai_articles", "", guid_keys(articles), "Error", 0)
            /\ UNCHANGED openai_articles
       ELSE /\ openai_articles' = openai_articles \cup {OpenAIArticle(new[i]) : i \in 1..Len(new)}
            /\ last' = Result("bulk_create_openai_articles", "", guid_keys(articles), "Count", Len(new))
    /\ UNCHANGED <<youtube_videos, anthropic_articles, digests, pc>>

bulk_create_anthropic_articles(articles) ==
    LET new == new_anthropic_articles(articles) IN
    /\ IF new # <<>> /\ UniqueViolation({r.guid : r \in anthropic_articles},
                                        guid_keys(new))
       THEN /\ last' = Result("bulk_create_anthropic_articles", "", guid_keys(articles), "Error", 0)
            /\ UNCHANGED anthropic_articles
       ELSE /\ anthropic_articles' =
                   anthropic_articles \cup {AnthropicArticle(new[i]) : i \in 1..Len(new)}
            /\ last' = Result("bulk_create_anthropic_articles", "", guid_keys(articles), "Count", Len(new))
    /\ UNCHANGED <<youtube_videos, openai_articles, digests, pc>>

update_anthropic_article_markdown(guid, markdown) ==
    /\ IF anthropic_by_guid(guid) # {}
       THEN /\ anthropic_articles' =
                   {IF r.guid = guid THEN [r EXCEPT !.markdown = markdown] ELSE r
                      : r \in anthropic_articles}
            /\ last' = Result("update_anthropic_article_markdown", guid, markdown, "True", 0)
       ELSE /\ last' = Result("update_anthropic_article_markdown", guid, markdown, "False", 0)
            /\ UNCHANGED anthropic_articles
    /\ UNCHANGED <<youtube_videos, openai_articles, digests, pc>>

\* An update_youtube_video_transcript that stores a row when there is none.
update_youtube_video_transcript_upsert(video_id, transcript) ==
    /\ IF youtube_by_id(video_id) # {}
       THEN /\ youtube_videos' =
                   {IF r.video_id = video_id THEN [r EXCEPT !.transcript = transcript] ELSE r
                      : r \in youtube_videos}
            /\ last' = Result("update_youtube_video_transcript", video_id, transcript, "True", 0)
       ELSE /\ last' = Result("update_youtube_video_transcript", video_id, transcript, "False", 0)
            /\ youtube_videos' = youtube_videos \cup
                   {[video_id |-> video_id, title |-> "", url |-> "", channel_id |-> "",
                     published_at |-> 0, description |-> "", transcript |-> transcript]}
    /\ UNCHANGED <<openai_articles, anthropic_articles, digests, pc>>

update_youtube_video_transcript(video_id, transcript) ==
    /\ IF youtube_by_id(video_id) # {}
       THEN /\ youtube_videos' =
                   {IF r.video_id = video_id THEN [r EXCEPT !.transcript = transcript] ELSE r
                      : r \in youtube_videos}
            /\ last' = Result("update_youtube_video_transcript", video_id, transcript, "True", 0)
       ELSE /\ last' = Result("update_youtube_video_transcript", video_id, transcript, "False", 0)
            /\ UNCHANGED youtube_videos
    /\ UNCHANGED <<openai_articles, anthropic_articles, digests, pc>>

\* A create_digest that replaces the stored digest of the same id.
create_digest_replace(d, now) ==
    LET digest_id == DigestId(d.article_type, d.article_id) IN
    /\ digests' = {r \in digests : r.id # digest_id} \cup {Digest(d, now)}
    /\ last' = Result("create_digest", digest_id, d,
                      IF digest_by_id(digest_id) # {} THEN "None" ELSE "Created", 0)
    /\ UNCHANGED <<youtube_videos, openai_articles, anthropic_articles, pc>>

create_digest(d, now) ==
    LET digest_id == DigestId(d.article_type, d.article_id) IN
    /\ IF digest_by_id(digest_id) # {}
       THEN /\ last' = Result("create_digest", digest_id, d, "None", 0)
            /\ UNCHANGED digests
       ELSE IF UniqueViolation({r.id : r \in digests}, <<digest_id>>)
       THEN /\ last' = Result("create_digest", digest_id, d, "Error", 0)
            /\ UNCHANGED digests
       ELSE /\ digests' = digests \cup {Digest(d, now)}
            /\ last' = Result("create_digest", digest_id, d, "Created", 0)
    /\ UNCHANGED <<youtube_videos, openai_articles, anthropic_articles, pc>>

\* --------------------------------------------------------- the read handlers
get_anthropic_articles_without_markdown(limit) ==
    ApplyLimit(All({r \in anthropic_articles : r.markdown = None}), limit)

\* A get_youtube_videos_without_transcript that also lists the videos marked unavailable.
get_youtube_videos_to_retry(limit) ==
    ApplyLimit(All({r \in youtube_videos : r.transcript \in {None, UNAVAILABLE}}), limit)

get_youtube_videos_without_transcript(limit) ==
    ApplyLimit(All({r \in youtube_videos : r.transcript = None}), limit)

\* A seen_ids that holds the article ids alone.
seen_article_ids == {d.article_id : d \in digests}

\* A seen_ids that never fills.
seen_ids_never == {}

\* seen_ids of get_articles_without_digest.
seen_ids == {DigestId(d.article_type, d.article_id) : d \in digests}

\* A video scan that filters on the truth value of the transcript.
youtube_with_truthy_transcript ==
    All({r \in youtube_videos : Truthy(r.transcript) /\ r.transcript # UNAVAILABLE})

\* A video scan that keeps the videos marked unavailable.
youtube_with_any_transcript ==
    All({r \in youtube_videos : r.transcript # None})

\* The three filtered scans of get_articles_without_digest.
youtube_with_transcript ==
    All({r \in youtube_videos : r.transcript # None /\ r.transcript # UNAVAILABLE})
all_openai_articles == All(openai_articles)
\* An anthropic scan without the filter on markdown.
all_anthropic_articles == All(anthropic_articles)

anthropic_with_markdown == All({r \in anthropic_articles : r.markdown # None})

\* A youtube_entry that prefers the description.
youtube_entry_description_first(video) ==
    [type |-> "youtube", id |-> video.video_id, title |-> video.title, url |-> video.url,
     content |-> Or3(video.description, video.transcript, ""),
     published_at |-> video.published_at]

youtube_entry(video) ==
    [type |-> "youtube", id |-> video.video_id, title |-> video.title, url |-> video.url,
     content |-> Or3(video.transcript, video.description, ""),
     published_at |-> video.published_at]

\* An openai_entry that takes the title as content.
openai_entry_title_content(article) ==
    [type |-> "openai", id |-> article.guid, title |-> article.title, url |-> article.url,
     content |-> IF Truthy(article.title) THEN article.title ELSE "",
     published_at |-> article.published_at]

openai_entry(article) ==
    [type |-> "openai", id |-> article.guid, title |-> article.title, url |-> article.url,
     content |-> IF Truthy(article.description) THEN article.description ELSE "",
     published_at |-> article.published_at]

\* An anthropic_entry without the fallback to the description.
anthropic_entry_markdown_only(article) ==
    [type |-> "anthropic", id |-> article.guid, title |-> article.title, url |-> article.url,
     content |-> article.markdown,
     published_at |-> article.published_at]

anthropic_entry(article) ==
    [type |-> "anthropic", id |-> article.guid, title |-> article.title, url |-> article.url,
     content |-> Or3(article.markdown, article.description, ""),
     published_at |-> article.published_at]

\* The three loops of get_articles_without_digest: the entries of the rows whose
\* key is not in seen_ids, in the order of the scan.
youtube_entries ==
    LET rows == SelectSeq(youtube_with_transcript,
                          LAMBDA video : DigestId("youtube", video.video_id) \notin seen_ids)
    IN [i \in 1..Len(rows) |-> youtube_entry(rows[i])]

openai_entries ==
    LET rows == SelectSeq(all_openai_articles,
                          LAMBDA article : DigestId("openai", article.guid) \notin seen_ids)
    IN [i \in 1..Len(rows) |-> openai_entry(rows[i])]

anthropic_entries ==
    LET rows == SelectSeq(anthropic_with_markdown,
                          LAMBDA article : DigestId("anthropic", article.guid) \notin seen_ids)
    IN [i \in 1..Len(rows) |-> anthropic_entry(rows[i])]

get_articles_without_digest(limit) ==
    ApplyLimit(youtube_entries \o openai_entries \o anthropic_entries, limit)

\* ---------------------------------------------------------------------- Spec
NotStarted == [at |-> "start", op |-> "", key |-> "", arg |-> "", ret |-> ""]

Init ==
    /\ youtube_videos = {}
    /\ openai_articles = {}
    /\ anthropic_articles = {}
    /\ digests = {}
    /\ last = Result("", "", "", "", 0)
    /\ pc = [c \in Calls |-> NotStarted]

Next ==
    \/ \E v \in VideoItems : create_youtube_video(v)
    \/ \E a \in ArticleItems : create_openai_article(a)
    \/ \E a \in ArticleItems : create_anthropic_article(a)
    \/ \E videos \in Batches(VideoItems) : bulk_create_youtube_videos(videos)
    \/ \E articles \in Batches(ArticleItems) : bulk_create_openai_articles(articles)
    \/ \E articles \in Batches(ArticleItems) : bulk_create_anthropic_articles(articles)
    \/ \E guid \in Ids, markdown \in Enrichments : update_anthropic_article_markdown(guid, markdown)
    \/ \E video_id \in Ids, transcript \in Enrichments :
           update_youtube_video_transcript(video_id, transcript)
    \/ \E d \in DigestItems, now \in Clock : create_digest(d, now)

Spec == Init /\ [][Next]_vars

\* ------------------------------------------- SpecRace: concurrent create_*
\* Each call runs in its own Repository and session on the shared database.  A
\* create_* handler is two database round trips: the query for an existing row
\* (begin_*), then session.add + session.commit (commit_*), which the table's
\* uniqueness constraint may reject; the handlers catch nothing, so a rejected
\* commit leaves the caller with the raised error.
Returned(c, op, key, ret) ==
    pc' = [pc EXCEPT ![c] = [at |-> "done", op |-> op, key |-> key, arg |-> "", ret |-> ret]]

Pending(c, op, key, arg) ==
    pc' = [pc EXCEPT ![c] = [at |-> "commit", op |-> op, key |-> key, arg |-> arg, ret |-> ""]]

begin_create_youtube_video(c, v) ==
    /\ pc[c].at = "start"
    /\ IF youtube_by_id(v.video_id) # {}
       THEN Returned(c, "create_youtube_video", v.video_id, "None")
       ELSE Pending(c, "create_youtube_video", v.video_id, YouTubeVideo(v))
    /\ UNCHANGED <<tables, last>>

commit_create_youtube_video(c) ==
    /\ pc[c].at = "commit" /\ pc[c].op = "create_youtube_video"
    /\ IF UniqueViolation({r.video_id : r \in youtube_videos}, <<pc[c].key>>)
       THEN /\ Returned(c, pc[c].op, pc[c].key, "Error")
            /\ UNCHANGED youtube_videos
       ELSE /\ youtube_videos' = youtube_videos \cup {pc[c].arg}
            /\ Returned(c, pc[c].op, pc[c].key, "Created")
    /\ UNCHANGED <<openai_articles, anthropic_articles, digests, last>>

begin_create_openai_article(c, a) ==
    /\ pc[c].at = "start"
    /\ IF openai_by_guid(a.guid) # {}
       THEN Returned(c, "create_openai_article", a.guid, "None")
       ELSE Pending(c, "create_openai_article", a.guid, OpenAIArticle(a))
    /\ UNCHANGED <<tables, last>>

commit_create_openai_article(c) ==
    /\ pc[c].at = "commit" /\ pc[c].op = "create_openai_article"
    /\ IF UniqueViolation({r.guid : r \in openai_articles}, <<pc[c].key>>)
       THEN /\ Returned(c, pc[c].op, pc[c].key, "Error")
            /\ UNCHANGED openai_articles
       ELSE /\ openai_articles' = openai_articles \cup {pc[c].arg}
            /\ Returned(c, pc[c].op, pc[c].key, "Created")
    /\ UNCHANGED <<youtube_videos, anthropic_articles, digests, last>>

begin_create_anthropic_article(c, a) ==
    /\ pc[c].at = "start"
    /\ IF anthropic_by_guid(a.guid) # {}
       THEN Returned(c, "create_anthropic_article", a.guid, "None")
       ELSE Pending(c, "create_anthropic_article", a.guid, AnthropicArticle(a))
    /\ UNCHANGED <<tables, last>>

commit_create_anthropic_article(c) ==
    /\ pc[c].at = "commit" /\ pc[c].op = "create_anthropic_article"
    /\ IF UniqueViolation({r.guid : r \in anthropic_articles}, <<pc[c].key>>)
       THEN /\ Returned(c, pc[c].op, pc[c].key, "Error")
            /\ UNCHANGED anthropic_articles
       ELSE /\ anthropic_articles' = anthropic_articles \cup {pc[c].arg}
            /\ Returned(c, pc[c].op, pc[c].key, "Created")
    /\ UNCHANGED <<youtube_videos, openai_articles, digests, last>>

begin_create_digest(c, d, now) ==
    LET digest_id == DigestId(d.article_type, d.article_id) IN
    /\ pc[c].at = "start"
    /\ IF digest_by_id(digest_id) # {}
       THEN Returned(c, "create_digest", digest_id, "None")
       ELSE Pending(c, "create_digest", digest_id, Digest(d, now))
    /\ UNCHANGED <<tables, last>>

commit_create_digest(c) ==
    /\ pc[c].at = "commit" /\ pc[c].op = "create_digest"
    /\ IF UniqueViolation({r.id : r \in digests}, <<pc[c].key>>)
       THEN /\ Returned(c, pc[c].op, pc[c].key, "Error")
            /\ UNCHANGED digests
       ELSE /\ digests' = digests \cup {pc[c].arg}
            /\ Returned(c, pc[c].op, pc[c].key, "Created")
    /\ UNCHANGED <<youtube_videos, openai_articles, anthropic_articles, last>>

NextRace ==
    \E c \in Calls :
        \/ \E v \in VideoItems : begin_create_youtube_video(c, v)
        \/ commit_create_youtube_video(c)
        \/ \E a \in ArticleItems : begin_create_openai_article(c, a)
        \/ commit_create_openai_article(c)
        \/ \E a \in ArticleItems : begin_create_anthropic_article(c, a)
        \/ commit_create_anthropic_article(c)
        \/ \E d \in DigestItems, now \in Clock : begin_create_digest(c, d, now)
        \/ commit_create_digest(c)

SpecRace == Init /\ [][NextRace]_vars

\* ------------------------------------ SpecBatch: batches over several keys
\* Spec keeps one key per table, so a batch of two items there always repeats
\* a key.  SpecBatch runs the create_* and bulk_create_* handlers over two keys.
BatchIds == {"v1", "v2"}

BatchVideoItems == {[v EXCEPT !.video_id = i] : v \in VideoItems, i \in BatchIds}

BatchArticleItems == {[a EXCEPT !.guid = i] : a \in ArticleItems, i \in BatchIds}

NextBatch ==
    \/ \E v \in BatchVideoItems : create_youtube_video(v)
    \/ \E a \in BatchArticleItems : create_openai_article(a)
    \/ \E a \in BatchArticleItems : create_anthropic_article(a)
    \/ \E videos \in Batches(BatchVideoItems) : bulk_create_youtube_videos(videos)
    \/ \E articles \in Batches(BatchArticleItems) : bulk_create_openai_articles(articles)
    \/ \E articles \in Batches(BatchArticleItems) : bulk_create_anthropic_articles(articles)

SpecBatch == Init /\ [][NextBatch]_vars

\* ------------------------- SpecBatchRace: a batch beside other producers
\* bulk_create_youtube_videos in its own session, beside other calls on the
\* same table: the loop of existence queries (begin_*), then add_all and the
\* one commit (commit_*).  The commit is one transaction: the uniqueness
\* constraint rejecting one row rejects the transaction, and the handler
\* catches nothing.
BulkReturned(c, keys, ret, n) ==
    pc' = [pc EXCEPT ![c] = [at |-> "done", op |-> "bulk_create_youtube_videos", key |-> "",
                             arg |-> [new |-> keys, n |-> n], ret |-> ret]]

begin_bulk_create_youtube_videos(c, videos) ==
    LET new == new_videos(videos) IN
    /\ pc[c].at = "start"
    /\ IF new = <<>>
       THEN BulkReturned(c, <<>>, "Count", 0)
       ELSE pc' = [pc EXCEPT ![c] = [at |-> "commit", op |-> "bulk_create_youtube_videos",
                                     key |-> "", arg |-> new, ret |-> ""]]
    /\ UNCHANGED <<tables, last>>

commit_bulk_create_youtube_videos(c) ==
    LET new == pc[c].arg IN
    /\ pc[c].at = "commit" /\ pc[c].op = "bulk_create_youtube_videos"
    /\ IF UniqueViolation({r.video_id : r \in youtube_videos}, youtube_keys(new))
       THEN /\ BulkReturned(c, youtube_keys(new), "Error", 0)
            /\ UNCHANGED youtube_videos
       ELSE /\ youtube_videos' = youtube_videos \cup {YouTubeVideo(new[i]) : i \in 1..Len(new)}
            /\ BulkReturned(c, youtube_keys(new), "Count", Len(new))
    /\ UNCHANGED <<openai_articles, anthropic_articles, digests, last>>

NextBatchRace ==
    \E c \in Calls :
        \/ \E v \in BatchVideoItems : begin_create_youtube_video(c, v)
        \/ commit_create_youtube_video(c)
        \/ \E videos \in Batches(BatchVideoItems) : begin_bulk_create_youtube_videos(c, videos)
        \/ commit_bulk_create_youtube_videos(c)

SpecBatchRace == Init /\ [][NextBatchRace]_vars

\* ------------------------------------- SpecLedger: the digest ledger, read
\* create_digest beside get_recent_digests, with the clock and the window width
\* in hours.  A digest's created_at is its published_at (2 in DigestItems) or
\* the clock reading of its create_digest.
MaxHours == 3

Hours == -1 .. MaxHours

LedgerClock == {3, 4, 5}

\* A cutoff that ignores the window width.
cutoff_time_now(now, hours) == now

cutoff_time(now, hours) == now - hours

\* A window that leaves out the digest created at the cutoff itself.
digests_after(cutoff) == {d \in digests : d.created_at > cutoff}

digests_since(cutoff) == {d \in digests : d.created_at >= cutoff}

\* ORDER BY created_at DESC: the orders the database may return; rows of equal
\* created_at come in either order.
order_by_created_at_desc(rows) ==
    {s \in [1..Cardinality(rows) -> rows] :
        /\ \A i, j \in 1..Cardinality(rows) : i # j => s[i] # s[j]
        /\ \A i \in 1..(Cardinality(rows) - 1) : s[i].created_at >= s[i + 1].created_at}

digest_dict(d) ==
    [id |-> d.id, article_type |-> d.article_type, article_id |-> d.article_id,
     url |-> d.url, title |-> d.title, summary |-> d.summary, created_at |-> d.created_at]

get_recent_digests(now, hours) ==
    /\ \E rows \in order_by_created_at_desc(digests_since(cutoff_time(now, hours))) :
           last' = Result("get_recent_digests", "",
                          [now |-> now, hours |-> hours,
                           result |-> [i \in 1..Len(rows) |-> digest_dict(rows[i])]],
                          "List", Len(rows))
    /\ UNCHANGED <<tables, pc>>

NextLedger ==
    \/ \E d \in DigestItems, now \in LedgerClock : create_digest(d, now)
    \/ \E now \in LedgerClock, hours \in Hours : get_recent_digests(now, hours)

SpecLedger == Init /\ [][NextLedger]_vars

\* --------------------------------- SpecEmptyKey: calls with an empty key
\* The create_* and update_* handlers called with the empty string as id.
EmptyKeyIds == {""}

EmptyKeyVideoItems == {[v EXCEPT !.video_id = i] : v \in VideoItems, i \in EmptyKeyIds}

EmptyKeyArticleItems == {[a EXCEPT !.guid = i] : a \in ArticleItems, i \in EmptyKeyIds}

NextEmptyKey ==
    \/ \E v \in EmptyKeyVideoItems : create_youtube_video(v)
    \/ \E a \in EmptyKeyArticleItems : create_openai_article(a)
    \/ \E a \in EmptyKeyArticleItems : create_anthropic_article(a)
    \/ \E guid \in EmptyKeyIds, markdown \in Enrichments :
           update_anthropic_article_markdown(guid, markdown)
    \/ \E video_id \in EmptyKeyIds, transcript \in Enrichments :
           update_youtube_video_transcript(video_id, transcript)

SpecEmptyKey == Init /\ [][NextEmptyKey]_vars

\* --------------------- SpecScan: get_articles_without_digest, failing scans
\* The handler runs four queries in turn (digests, videos, openai articles,
\* anthropic articles) with no try / except around any of them: the first
\* query the storage layer fails raises out of the handler.  Which query
\* fails, if any, is the environment's choice.
Scans == <<"digests", "youtube", "openai", "anthropic">>

NoFailure == "none"

ScanFailures == {NoFailure} \cup Range(Scans)

StorageError == "OperationalError"

\* A handler that skips the source whose scan failed and returns the rest.
call_get_articles_without_digest_skipping(limit, failure) ==
    /\ last' = Result("get_articles_without_digest", "",
                      [limit |-> limit, failure |-> failure], "List",
                      Len(ApplyLimit((IF failure = "youtube" THEN <<>> ELSE youtube_entries)
                                     \o (IF failure = "openai" THEN <<>> ELSE openai_entries)
                                     \o (IF failure = "anthropic" THEN <<>> ELSE anthropic_entries),
                                     limit)))
    /\ UNCHANGED <<tables, pc>>

call_get_articles_without_digest(limit, failure) ==
    /\ IF failure # NoFailure
       THEN last' = Result("get_articles_without_digest", "",
                           [limit |-> limit, failure |-> failure], StorageError, 0)
       ELSE last' = Result("get_articles_without_digest", "",
                           [limit |-> limit, failure |-> failure], "List",
                           Len(get_articles_without_digest(limit)))
    /\ UNCHANGED <<tables, pc>>

NextScan ==
    \/ \E v \in VideoItems : create_youtube_video(v)
    \/ \E a \in ArticleItems : create_openai_article(a)
    \/ \E a \in ArticleItems : create_anthropic_article(a)
    \/ \E guid \in Ids, markdown \in Enrichments : update_anthropic_article_markdown(guid, markdown)
    \/ \E d \in DigestItems, now \in Clock : create_digest(d, now)
    \/ \E limit \in Limits, failure \in ScanFailures :
           call_get_articles_without_digest(limit, failure)

SpecScan == Init /\ [][NextScan]_vars

\* ------------------------------- SpecZones: create_digest across time zones
\* create_digest with published_at absent, naive, in UTC, or in a zone east or
\* west of UTC.
PublishedAts ==
    {<<>>} \cup {<<[wall |-> 6, tzinfo |-> z]>> : z \in {<<>>, <<0>>, <<2>>, <<-3>>}}

ZonedDigestItems ==
    {[d EXCEPT !.published_at = p] : d \in {i \in DigestItems : i.title = "DT1"},
                                     p \in PublishedAts}

NextZones ==
    \E d \in ZonedDigestItems, now \in Clock : create_digest(d, now)

SpecZones == Init /\ [][NextZones]_vars

\* ------------------------------------------ SpecDrain: the digest loop
\* The summarization driver on a database that no producer writes to any more:
\* it calls get_articles_without_digest with a limit of 1 or more, calls
\* create_digest for each returned entry in turn, and starts over.  The batch
\* it is working on is kept in pc[Driver].arg, empty before the first batch;
\* last is its last create_digest call.
Driver == 1

DrainLimits == {<<n>> : n \in 1..MaxLimit}

\* The tables when the producers stop: per id no row, a row that is not ready,
\* or a ready row.
DrainVideos ==
    {[YouTubeVideo(v) EXCEPT !.transcript = t] : v \in {i \in BatchVideoItems : i.title = "T1"},
                                                t \in {None, "transcript text"}}

DrainOpenAIArticles == {OpenAIArticle(a) : a \in {i \in BatchArticleItems : i.title = "T1"}}

DrainAnthropicArticles ==
    {[AnthropicArticle(a) EXCEPT !.markdown = m] : a \in {i \in BatchArticleItems : i.title = "T1"},
                                                   m \in {None, "transcript text"}}

UniqueKeys(rows, keys) == Cardinality(rows) = Cardinality(keys)

\* What the driver passes to create_digest for an entry it was given.
digest_of_entry(e) ==
    [article_type |-> e.type, article_id |-> e.id, url |-> e.url, title |-> "DT1",
     summary |-> "S1", published_at |-> <<>>]

\* The driver before its first create_digest call.
NoEntry == [type |-> "", id |-> "", url |-> ""]

InitDrain ==
    /\ youtube_videos \in SUBSET DrainVideos
    /\ UniqueKeys(youtube_videos, {r.video_id : r \in youtube_videos})
    /\ openai_articles \in SUBSET DrainOpenAIArticles
    /\ anthropic_articles \in SUBSET DrainAnthropicArticles
    /\ UniqueKeys(anthropic_articles, {r.guid : r \in anthropic_articles})
    /\ digests = {}
    /\ last = Result("", "", digest_of_entry(NoEntry), "", 0)
    /\ pc = [c \in Calls |-> [NotStarted EXCEPT !.arg = <<>>]]

driver_get_articles_without_digest(limit) ==
    /\ pc[Driver].arg = <<>>
    /\ pc' = [pc EXCEPT ![Driver].arg = get_articles_without_digest(limit)]
    /\ UNCHANGED <<tables, last>>

driver_create_digest(now) ==
    /\ pc[Driver].arg # <<>>
    /\ last.key # DigestId(Head(pc[Driver].arg).type, Head(pc[Driver].arg).id)
    /\ create_digest(digest_of_entry(Head(pc[Driver].arg)), now)

driver_next_entry ==
    /\ pc[Driver].arg # <<>>
    /\ last.key = DigestId(Head(pc[Driver].arg).type, Head(pc[Driver].arg).id)
    /\ pc' = [pc EXCEPT ![Driver].arg = Tail(@)]
    /\ UNCHANGED <<tables, last>>

NextDrain ==
    \/ \E limit \in DrainLimits : driver_get_articles_without_digest(limit)
    \/ \E now \in Clock : driver_create_digest(now)
    \/ driver_next_entry

\* The driver keeps running: its next step is taken whenever there is one.
SpecDrain == InitDrain /\ [][NextDrain]_vars /\ WF_vars(NextDrain)

\* ===================================================================== claims
RegisterOps == {"create_youtube_video", "create_openai_article", "create_anthropic_article"}
BulkOps == {"bulk_create_youtube_videos", "bulk_create_openai_articles",
            "bulk_create_anthropic_articles"}

\* The rows a register call of `op` for `key` looks up.
RowsOf(op, key) ==
    IF op = "create_youtube_video" THEN youtube_by_id(key)
    ELSE IF op = "create_openai_article" THEN openai_by_guid(key)
    ELSE anthropic_by_guid(key)

\* The calls of `op` for `key` that have returned.
DoneCalls(op, key) == {c \in Calls : pc[c].at = "done" /\ pc[c].op = op /\ pc[c].key = key}

\* The ids of the digest ledger.
LedgerIds == {d.id : d \in digests}

\* What get_articles_without_digest returns without a limit, as a set.
PendingSet == Range(get_articles_without_digest(<<>>))

\* An entry for (type, id) is returned by get_articles_without_digest under some limit.
InPending(type, id) ==
    \E limit \in Limits : \E e \in Range(get_articles_without_digest(limit)) :
        e.type = type /\ e.id = id

\* The ids that get_youtube_videos_without_transcript /
\* get_anthropic_articles_without_markdown return under some limit.
PendingTranscriptIds ==
    UNION {{r.video_id : r \in Range(get_youtube_videos_without_transcript(limit))}
           : limit \in Limits}
PendingMarkdownIds ==
    UNION {{r.guid : r \in Range(get_anthropic_articles_without_markdown(limit))}
           : limit \in Limits}

\* C1 (SpecRace): when two or more concurrent register calls for the same key
\* have returned, the table holds exactly one row for the key and all of them
\* but one returned None.
C1_ConcurrentRegisterOneWinner ==
    \A op \in RegisterOps, key \in Ids :
        Cardinality(DoneCalls(op, key)) >= 2 =>
            /\ Cardinality(RowsOf(op, key)) = 1
            /\ Cardinality({c \in DoneCalls(op, key) : pc[c].ret # "None"}) <= 1

\* C2: no entry get_articles_without_digest returns, under any limit, has a
\* digest id (type:id) that is in the digest ledger.
C2_PendingSound ==
    \A limit \in Limits : \A e \in Range(get_articles_without_digest(limit)) :
        DigestId(e.type, e.id) \notin LedgerIds

\* C2 witness: a digested item is held back while another item is returned.
C2_Witness ==
    /\ \E r \in youtube_videos : /\ r.transcript = "transcript text"
                                 /\ DigestId("youtube", r.video_id) \in LedgerIds
    /\ \E e \in PendingSet : e.type = "anthropic"
    /\ \A e \in PendingSet : e.type # "youtube"

\* C3: get_articles_without_digest without a limit returns every ready row that
\* has no digest: a video with a transcript other than UNAVAILABLE, every
\* openai article, an anthropic article with markdown.
C3_PendingComplete ==
    /\ \A r \in youtube_videos :
           (r.transcript # None /\ r.transcript # UNAVAILABLE
            /\ DigestId("youtube", r.video_id) \notin LedgerIds)
           => \E e \in PendingSet : e.type = "youtube" /\ e.id = r.video_id
    /\ \A r \in openai_articles :
           DigestId("openai", r.guid) \notin LedgerIds
           => \E e \in PendingSet : e.type = "openai" /\ e.id = r.guid
    /\ \A r \in anthropic_articles :
           (r.markdown # None /\ DigestId("anthropic", r.guid) \notin LedgerIds)
           => \E e \in PendingSet : e.type = "anthropic" /\ e.id = r.guid

\* C3 witness: a ready row of each table is returned, one of them a video whose
\* transcript is the empty string, while a video of another state is not.
C3_Witness ==
    /\ \E r \in youtube_videos : r.transcript = "" /\ DigestId("youtube", r.video_id) \notin LedgerIds
    /\ \E r \in anthropic_articles : r.markdown # None
    /\ {e.type : e \in PendingSet} = {"youtube", "openai", "anthropic"}
    /\ LedgerIds = {}

\* C4: a create_digest that follows a create_digest for the same key returns
\* None and changes nothing; the ledger holds exactly one record for the key,
\* with the url, title and summary of the first call.
C4_CreateDigestTwice ==
    [][\A d \in DigestItems, now \in Clock :
          (/\ last.op = "create_digest"
           /\ last.key = DigestId(d.article_type, d.article_id)
           /\ create_digest(d, now))
          => /\ last'.ret = "None"
             /\ digests' = digests
             /\ Cardinality(digest_by_id(last.key)) = 1
             /\ last.ret = "Created" =>
                    \A r \in digest_by_id(last.key) :
                        /\ r.url = last.arg.url
                        /\ r.title = last.arg.title
                        /\ r.summary = last.arg.summary
                        /\ r.created_at \in
                               {timestamp_utc(created_at_of(last.arg.published_at, now1))
                                  : now1 \in Clock}]_vars

\* C4 witness: a second create_digest with another title, summary and
\* published_at than the stored record has returned None.
C4_Witness ==
    /\ last.op = "create_digest"
    /\ last.ret = "None"
    /\ \E r \in digest_by_id(last.key) :
           /\ r.title # last.arg.title
           /\ r.summary # last.arg.summary
           /\ last.arg.published_at # <<>>
           /\ r.created_at # last.arg.published_at[1].wall

\* C5 (SpecRace): when two or more concurrent create_digest calls for the same
\* key have returned, the ledger holds exactly one record for the key and every
\* call returned the record or None, none an error.
C5_ConcurrentCreateDigestClean ==
    \A d \in DigestItems :
        LET done == DoneCalls("create_digest", DigestId(d.article_type, d.article_id)) IN
        Cardinality(done) >= 2 =>
            /\ Cardinality(digest_by_id(DigestId(d.article_type, d.article_id))) = 1
            /\ \A c \in done : pc[c].ret \in {"Created", "None"}

\* C6: for each of the three tables, a register that follows a register of the
\* same key returns None and the table holds exactly one row for the key.
C6_RegisterTwice ==
    [][/\ \A v \in VideoItems :
             (/\ last.op = "create_youtube_video" /\ last.key = v.video_id
              /\ create_youtube_video(v))
             => /\ last'.ret = "None"
                /\ Cardinality(youtube_by_id(v.video_id)') = 1
       /\ \A a \in ArticleItems :
             (/\ last.op = "create_openai_article" /\ last.key = a.guid
              /\ create_openai_article(a))
             => /\ last'.ret = "None"
                /\ Cardinality(openai_by_guid(a.guid)') = 1
       /\ \A a \in ArticleItems :
             (/\ last.op = "create_anthropic_article" /\ last.key = a.guid
              /\ create_anthropic_article(a))
             => /\ last'.ret = "None"
                /\ Cardinality(anthropic_by_guid(a.guid)') = 1]_vars

\* C6 witness: a register of an openai article whose key is stored has returned None.
C6_Witness ==
    /\ last.op = "create_openai_article"
    /\ last.ret = "None"
    /\ Cardinality(openai_by_guid(last.key)) = 1

\* C7: a register or a batch register leaves every stored row of the three
\* source tables as it was, with all its columns.
C7_RegisterNeverOverwrites ==
    [][last'.op \in RegisterOps \cup BulkOps =>
          /\ youtube_videos \subseteq youtube_videos'
          /\ openai_articles \subseteq openai_articles'
          /\ anthropic_articles \subseteq anthropic_articles']_vars

\* C7 witness: a register of a stored video id, carrying other columns and a
\* transcript, has returned None and the stored row has no transcript.
C7_Witness ==
    /\ last.op = "create_youtube_video"
    /\ last.ret = "None"
    /\ last.arg.transcript # None
    /\ \E r \in youtube_by_id(last.key) :
           /\ r.title # last.arg.title
           /\ r.url # last.arg.url
           /\ r.published_at # last.arg.published_at
           /\ r.description # last.arg.description
           /\ r.transcript = None

\* C8: an update to UNAVAILABLE of a stored row leaves it with UNAVAILABLE; a
\* stored row that has a transcript / markdown stays stored and keeps having
\* one across every operation; and no row that has one is returned, under any
\* limit, by get_youtube_videos_without_transcript /
\* get_anthropic_articles_without_markdown.
C8_UnavailableIsPermanent ==
    /\ [](\A r \in youtube_videos : r.transcript # None => r.video_id \notin PendingTranscriptIds)
    /\ [](\A r \in anthropic_articles : r.markdown # None => r.guid \notin PendingMarkdownIds)
    /\ [][\A id \in Ids :
             /\ (youtube_by_id(id) # {} /\ update_youtube_video_transcript(id, UNAVAILABLE))
                    => \A r \in youtube_by_id(id)' : r.transcript = UNAVAILABLE
             /\ (youtube_by_id(id) # {} /\ \A r \in youtube_by_id(id) : r.transcript # None)
                    => (youtube_by_id(id)' # {} /\ \A r \in youtube_by_id(id)' : r.transcript # None)
             /\ (anthropic_by_guid(id) # {} /\ update_anthropic_article_markdown(id, UNAVAILABLE))
                    => \A r \in anthropic_by_guid(id)' : r.markdown = UNAVAILABLE
             /\ (anthropic_by_guid(id) # {} /\ \A r \in anthropic_by_guid(id) : r.markdown # None)
                    => (anthropic_by_guid(id)' # {}
                        /\ \A r \in anthropic_by_guid(id)' : r.markdown # None)]_vars

\* C8 witness: a video is marked UNAVAILABLE and a later register of its id has run.
C8_Witness ==
    /\ last.op \in {"create_youtube_video", "bulk_create_youtube_videos"}
    /\ \E r \in youtube_videos : r.transcript = UNAVAILABLE /\ r.video_id \notin PendingTranscriptIds

\* C9: an update of the transcript / markdown of a row that already has one
\* (a string or UNAVAILABLE) returns False and leaves the table as it was.
C9_EnrichmentWrittenOnce ==
    [][/\ (/\ last'.op = "update_youtube_video_transcript"
           /\ \E r \in youtube_by_id(last'.key) : r.transcript # None)
          => (last'.ret = "False" /\ youtube_videos' = youtube_videos)
       /\ (/\ last'.op = "update_anthropic_article_markdown"
           /\ \E r \in anthropic_by_guid(last'.key) : r.markdown # None)
          => (last'.ret = "False" /\ anthropic_articles' = anthropic_articles)]_vars

\* C10: registering video v1 without a transcript leaves it out of
\* get_articles_without_digest; attaching "transcript text" to it, while it has
\* no digest, brings it in with that content; create_digest("youtube", "v1")
\* takes it out; and once the ledger holds youtube:v1 it holds it, and v1 is
\* out, after every operation.
C10_VideoLifecycle ==
    /\ [](DigestId("youtube", "v1") \in LedgerIds => ~InPending("youtube", "v1"))
    /\ [][/\ (/\ last'.op = "create_youtube_video" /\ last'.key = "v1"
              /\ last'.ret = "Created" /\ last'.arg.transcript = None)
                => ~InPending("youtube", "v1")'
          /\ (/\ last'.op = "update_youtube_video_transcript" /\ last'.key = "v1"
              /\ last'.ret = "True" /\ last'.arg = "transcript text"
              /\ DigestId("youtube", "v1") \notin LedgerIds)
                => \E e \in PendingSet' :
                       e.type = "youtube" /\ e.id = "v1" /\ e.content = "transcript text"
          /\ (last'.op = "create_digest" /\ last'.key = DigestId("youtube", "v1"))
                => ~InPending("youtube", "v1")'
          /\ DigestId("youtube", "v1") \in LedgerIds
                => DigestId("youtube", "v1") \in LedgerIds']_vars

\* C10 witness: v1 holds "transcript text", its digest is in the ledger, and a
\* later update of its transcript has run.
C10_Witness ==
    /\ last.op = "update_youtube_video_transcript"
    /\ last.ret = "True"
    /\ DigestId("youtube", "v1") \in LedgerIds
    /\ \E r \in youtube_by_id("v1") : r.transcript = "transcript text"
    /\ ~InPending("youtube", "v1")

\* C11 as stated: every video entry get_articles_without_digest returns, under
\* any limit, is of a video whose transcript is present and not UNAVAILABLE, and
\* its content is that transcript exactly, the empty string included.
C11_VideoContentIsTranscript ==
    \A limit \in Limits : \A e \in Range(get_articles_without_digest(limit)) :
        e.type = "youtube" =>
            \E r \in youtube_by_id(e.id) :
                /\ r.transcript # None /\ r.transcript # UNAVAILABLE
                /\ e.content = r.transcript

\* C11 as amended: every video entry get_articles_without_digest returns, under
\* any limit, is of a video whose transcript is present and not UNAVAILABLE; its
\* content is the transcript when that is not empty and the description when
\* the transcript is the empty string.
C11_VideoContentOrDescription ==
    \A limit \in Limits : \A e \in Range(get_articles_without_digest(limit)) :
        e.type = "youtube" =>
            \E r \in youtube_by_id(e.id) :
                /\ r.transcript # None /\ r.transcript # UNAVAILABLE
                /\ e.content = IF r.transcript # "" THEN r.transcript ELSE r.description

\* C11 witness: a video with the empty transcript is returned with its
\* description as content.
C11_Witness ==
    \E e \in PendingSet :
        /\ e.type = "youtube"
        /\ e.content = "d1"
        /\ \E r \in youtube_by_id(e.id) : r.transcript = "" /\ r.description = "d1"

\* C12: every stored openai article that has no digest is returned by
\* get_articles_without_digest, with its description as content; this holds in
\* the state right after its create_openai_article as in every later one.
C12_OpenAIReadyWhenRegistered ==
    \A r \in openai_articles :
        DigestId("openai", r.guid) \notin LedgerIds =>
            \E e \in PendingSet :
                /\ e.type = "openai" /\ e.id = r.guid
                /\ e.content = r.description
                /\ e.title = r.title /\ e.url = r.url /\ e.published_at = r.published_at

\* C12 witness: create_openai_article has just stored an article and it is
\* returned with its description.
C12_Witness ==
    /\ last.op = "create_openai_article"
    /\ last.ret = "Created"
    /\ \E e \in PendingSet :
           e.type = "openai" /\ e.id = last.key /\ e.content = "d1"

\* C13: an anthropic entry is returned, under any limit, only for an article
\* that has markdown and no digest, and every such article is returned without
\* a limit; its content is the markdown when that is not empty and the
\* description when the markdown is the empty string.
C13_AnthropicReadyWithMarkdown ==
    /\ \A limit \in Limits : \A e \in Range(get_articles_without_digest(limit)) :
           e.type = "anthropic" =>
               \E r \in anthropic_by_guid(e.id) :
                   /\ r.markdown # None
                   /\ DigestId("anthropic", r.guid) \notin LedgerIds
                   /\ e.content = IF r.markdown # "" THEN r.markdown ELSE r.description
    /\ \A r \in anthropic_articles :
           (r.markdown # None /\ DigestId("anthropic", r.guid) \notin LedgerIds)
           => \E e \in PendingSet : e.type = "anthropic" /\ e.id = r.guid

\* C13 witness: an article with the empty markdown is returned with its
\* description as content.
C13_Witness ==
    \E e \in PendingSet :
        /\ e.type = "anthropic"
        /\ e.content = "d1"
        /\ \E r \in anthropic_by_guid(e.id) : r.markdown = "" /\ r.description = "d1"

\* The keys and the rows of the table a bulk_create_* call works on.
BulkRows(op) ==
    IF op = "bulk_create_youtube_videos" THEN youtube_videos
    ELSE IF op = "bulk_create_openai_articles" THEN openai_articles
    ELSE anthropic_articles

BulkKeys(op) ==
    IF op = "bulk_create_youtube_videos" THEN {r.video_id : r \in youtube_videos}
    ELSE {r.guid : r \in BulkRows(op)}

DistinctKeys(keys) == \A i, j \in 1..Len(keys) : i # j => keys[i] # keys[j]

\* C14: a bulk_create_* call on a batch of distinct keys returns the batch size
\* minus the number of its keys that were already stored; afterwards every key
\* of the batch is stored and every row stored before the call is still there,
\* unchanged.
C14_BulkCreateCountsNewRows ==
    [][ \A op \in BulkOps :
          (last'.op = op /\ DistinctKeys(last'.arg)) =>
              LET keys == last'.arg
                  k == Cardinality({i \in 1..Len(keys) : keys[i] \in BulkKeys(op)})
              IN  /\ last'.ret = "Count"
                  /\ last'.n = Len(keys) - k
                  /\ \A i \in 1..Len(keys) : keys[i] \in BulkKeys(op)'
                  /\ BulkRows(op) \subseteq BulkRows(op)'
                  /\ Cardinality(BulkKeys(op)') = Cardinality(BulkRows(op)')
      ]_vars

\* C14 witness: a batch of two keys, one of them stored before with other
\* fields, returned 1; the old row is as it was and the new key is stored.
C14_Witness ==
    /\ last.op = "bulk_create_youtube_videos"
    /\ last.arg = <<"v1", "v2">>
    /\ last.ret = "Count" /\ last.n = 1
    /\ \E r1, r2 \in youtube_videos :
           /\ r1.video_id = "v1" /\ r1.title = "T1"
           /\ r2.video_id = "v2" /\ r2.title = "T2"

\* C15: a finished bulk_create_youtube_videos call whose new items had distinct
\* keys has returned a count, not an error, and the key of every item it found
\* new is stored, whatever another producer inserted between its existence
\* queries and its commit.
C15_RejectedItemKeepsBatch ==
    \A c \in Calls :
        (/\ pc[c].at = "done"
         /\ pc[c].op = "bulk_create_youtube_videos"
         /\ DistinctKeys(pc[c].arg.new))
        => /\ pc[c].ret = "Count"
           /\ pc[c].arg.n <= Len(pc[c].arg.new)
           /\ \A i \in 1..Len(pc[c].arg.new) :
                  pc[c].arg.new[i] \in {r.video_id : r \in youtube_videos}

\* C16: what get_recent_digests(hours) returned at clock reading now is exactly
\* the digests with created_at >= now - hours, each once, in non-increasing
\* created_at order.
C16_RecentDigestsWindowAndOrder ==
    last.op = "get_recent_digests" =>
        LET result == last.arg.result
            cutoff == last.arg.now - last.arg.hours
        IN  /\ \A i \in 1..Len(result) :
                   /\ result[i].created_at >= cutoff
                   /\ \E d \in digests : result[i] = d
            /\ \A d \in digests :
                   d.created_at >= cutoff => \E i \in 1..Len(result) : result[i].id = d.id
            /\ \A i, j \in 1..Len(result) : i # j => result[i].id # result[j].id
            /\ \A i \in 1..(Len(result) - 1) :
                   result[i].created_at >= result[i + 1].created_at
            /\ last.n = Len(result)

\* C16 witness: a read returned two digests of different created_at, one of
\* them created exactly at the cutoff, while a third, older digest is left out.
C16_Witness ==
    /\ last.op = "get_recent_digests"
    /\ Len(last.arg.result) = 2
    /\ last.arg.result[1].created_at > last.arg.result[2].created_at
    /\ last.arg.result[2].created_at = last.arg.now - last.arg.hours
    /\ \E d \in digests : d.created_at < last.arg.now - last.arg.hours

\* C20: get_recent_digests called with hours <= 0 signals InvalidInput instead
\* of returning a list of digests.
C20_NonPositiveWindowRejected ==
    (last.op = "get_recent_digests" /\ last.arg.hours <= 0) => last.ret = "InvalidInput"

\* C17: every operation keeps every stored digest as it is, so the set of
\* digest ids only grows, and keeps every key of every source table.
C17_TablesOnlyGrow ==
    [][ /\ digests \subseteq digests'
        /\ {r.id : r \in digests} \subseteq {r.id : r \in digests'}
        /\ {r.video_id : r \in youtube_videos} \subseteq {r.video_id : r \in youtube_videos'}
        /\ {r.guid : r \in openai_articles} \subseteq {r.guid : r \in openai_articles'}
        /\ {r.guid : r \in anthropic_articles} \subseteq {r.guid : r \in anthropic_articles'}
      ]_vars

\* C17 witness: a create_digest for an article that has a digest has run, with
\* another title and summary, and the stored digest is the earlier one; rows
\* of all three source tables are stored.
C17_Witness ==
    /\ last.op = "create_digest"
    /\ last.ret = "None"
    /\ \E r \in digest_by_id(last.key) :
           r.title # last.arg.title /\ r.summary # last.arg.summary
    /\ youtube_videos # {} /\ openai_articles # {} /\ anthropic_articles # {}

\* C18: update_youtube_video_transcript and update_anthropic_article_markdown
\* for an id that has no row return False and leave every table as it was.
C18_UpdateOfMissingRow ==
    [][ \A id \in Ids :
          /\ (last'.op = "update_youtube_video_transcript" /\ last'.key = id
              /\ youtube_by_id(id) = {})
                 => (last'.ret = "False" /\ tables' = tables)
          /\ (last'.op = "update_anthropic_article_markdown" /\ last'.key = id
              /\ anthropic_by_guid(id) = {})
                 => (last'.ret = "False" /\ tables' = tables)
      ]_vars

\* C18 witness: an update of a video id that has no row returned False while
\* the other tables hold rows, and the video table is still empty.
C18_Witness ==
    /\ last.op = "update_youtube_video_transcript"
    /\ last.ret = "False"
    /\ youtube_videos = {}
    /\ openai_articles # {} /\ anthropic_articles # {} /\ digests # {}

\* C19: a create_* or update_* call with the empty string as id signals
\* InvalidInput, and no table holds a row whose id is the empty string.
C19_EmptyKeyRejected ==
    /\ (last.op \in RegisterOps \cup {"update_youtube_video_transcript",
                                      "update_anthropic_article_markdown"}
        /\ last.key = "") => last.ret = "InvalidInput"
    /\ \A r \in youtube_videos : r.video_id # ""
    /\ \A r \in openai_articles \cup anthropic_articles : r.guid # ""

\* Whether the ledger holds a digest for the article (type, id), and whether
\* the source row (type, id) passes the filter of its scan.
HasDigest(type, id) == \E d \in digests : d.article_type = type /\ d.article_id = id

ReadyRow(type, id) ==
    IF type = "youtube"
    THEN \E r \in youtube_by_id(id) : r.transcript # None /\ r.transcript # UNAVAILABLE
    ELSE IF type = "openai" THEN openai_by_guid(id) # {}
    ELSE \E r \in anthropic_by_guid(id) : r.markdown # None

\* C21: a create_* call for an id that has no row in its own table returns the
\* created row, whatever the other tables hold under that id; and a digest for
\* (t, id) leaves a ready article (u, id) of another type u, which has no
\* digest of its own, in what get_articles_without_digest returns.
C21_KeysArePerSourceType ==
    /\ [](\A t \in ArticleTypes, u \in ArticleTypes, id \in Ids :
            (t # u /\ HasDigest(t, id) /\ ReadyRow(u, id) /\ ~HasDigest(u, id))
            => \E e \in PendingSet : e.type = u /\ e.id = id)
    /\ [][\A op \in RegisterOps, id \in Ids :
            (last'.op = op /\ last'.key = id /\ RowsOf(op, id) = {})
            => last'.ret = "Created"]_vars

\* C21 witness: an anthropic article was created under an id that the video
\* table holds too, while the openai article of that id has a digest and the
\* video of that id is still returned.
C21_Witness ==
    /\ last.op = "create_anthropic_article"
    /\ last.ret = "Created"
    /\ youtube_by_id(last.key) # {}
    /\ HasDigest("openai", last.key)
    /\ ~HasDigest("youtube", last.key)
    /\ \E e \in PendingSet : e.type = "youtube" /\ e.id = last.key

\* C22: every digest stored before a get_recent_digests call, with created_at
\* inside the call's window, is in what the call returns.
C22_RecentReadsOwnWrites ==
    [][last'.op = "get_recent_digests" =>
          \A d \in digests :
              d.created_at >= last'.arg.now - last'.arg.hours
              => \E i \in 1..Len(last'.arg.result) : last'.arg.result[i] = d]_vars

\* C22 witness: a create_digest without published_at stored a digest at the
\* clock reading 3, and the read that followed, at reading 4 with a window of
\* one hour, returned it.
C22_Witness ==
    /\ last.op = "get_recent_digests"
    /\ last.arg.now = 4 /\ last.arg.hours = 1
    /\ \E i \in 1..Len(last.arg.result) :
           last.arg.result[i].created_at = 3 /\ last.arg.result[i].title = "DT1"

\* C23: a get_articles_without_digest call in which one of the four scans
\* failed has raised the storage error and returned no list; a call that
\* returned a list returned the entries of all three sources.
C23_PendingFailsAsAWhole ==
    last.op = "get_articles_without_digest" =>
        /\ last.arg.failure # NoFailure => last.ret = StorageError
        /\ last.ret = "List" => last.n = Len(get_articles_without_digest(last.arg.limit))

\* C23 witness: the scan of the video table failed while rows of all three
\* sources were ready, and the call raised.
C23_Witness ==
    /\ last.op = "get_articles_without_digest"
    /\ last.arg.failure = "youtube"
    /\ last.ret = StorageError
    /\ {e.type : e \in PendingSet} = ArticleTypes

\* C24: for every given limit n, 0 included, get_articles_without_digest
\* returns at most n entries, the first n of what it returns without a limit;
\* without a limit it returns the video entries, then the openai entries, then
\* the anthropic entries.
C24_PendingTruncatedToLimit ==
    /\ get_articles_without_digest(<<>>) = youtube_entries \o openai_entries \o anthropic_entries
    /\ \A n \in 0..MaxLimit :
           /\ Len(get_articles_without_digest(<<n>>)) <= n
           /\ get_articles_without_digest(<<n>>) = Take(get_articles_without_digest(<<>>), n)

\* C25: get_youtube_videos_without_transcript and
\* get_anthropic_articles_without_markdown return only rows with no transcript /
\* no markdown; without a limit they return all such rows, and with a given
\* limit n, 0 included, at most n of them.
C25_PendingEnrichmentListing ==
    /\ \A limit \in Limits :
           /\ \A r \in Range(get_youtube_videos_without_transcript(limit)) :
                  r \in youtube_videos /\ r.transcript = None
           /\ \A r \in Range(get_anthropic_articles_without_markdown(limit)) :
                  r \in anthropic_articles /\ r.markdown = None
    /\ Range(get_youtube_videos_without_transcript(<<>>))
           = {r \in youtube_videos : r.transcript = None}
    /\ Range(get_anthropic_articles_without_markdown(<<>>))
           = {r \in anthropic_articles : r.markdown = None}
    /\ \A n \in 0..MaxLimit :
           /\ Len(get_youtube_videos_without_transcript(<<n>>)) <= n
           /\ Len(get_anthropic_articles_without_markdown(<<n>>)) <= n

C27_BulkCreateRepeatedKey ==
    [][\A op \in BulkOps :
          last'.op = op =>
              /\ last'.ret = "Count"
              /\ last'.n = Cardinality(BulkRows(op)') - Cardinality(BulkRows(op))
              /\ \A i \in 1..Len(last'.arg) : last'.arg[i] \in BulkKeys(op)'
              /\ Cardinality(BulkKeys(op)') = Cardinality(BulkRows(op)')]_vars

\* C28: no entry that get_articles_without_digest returns, under any limit and
\* for any of the three sources, has the UNAVAILABLE sentinel as content.
C28_NoUnavailableContent ==
    \A limit \in Limits : \A e \in Range(get_articles_without_digest(limit)) :
        e.content # UNAVAILABLE

\* C29: no video is returned both by get_youtube_videos_without_transcript and
\* by get_articles_without_digest, no anthropic article both by
\* get_anthropic_articles_without_markdown and by get_articles_without_digest,
\* under any limits; and no two entries of one get_articles_without_digest
\* result have the same type and id.
C29_WorkQueuesDisjoint ==
    /\ \A id \in PendingTranscriptIds : ~InPending("youtube", id)
    /\ \A id \in PendingMarkdownIds : ~InPending("anthropic", id)
    /\ \A limit \in Limits :
           LET result == get_articles_without_digest(limit) IN
           \A i, j \in 1..Len(result) :
               i # j => <<result[i].type, result[i].id>> # <<result[j].type, result[j].id>>

\* C29 witness: a video waits for its transcript while the openai and the
\* anthropic article of the same id are both returned for a digest.
C29_Witness ==
    /\ PendingTranscriptIds # {}
    /\ PendingMarkdownIds = {}
    /\ Len(get_articles_without_digest(<<>>)) = 2
    /\ \E id \in PendingTranscriptIds : InPending("openai", id) /\ InPending("anthropic", id)

\* C30: with no producer writing, the driver's loop of
\* get_articles_without_digest(limit >= 1) and create_digest for each returned
\* entry reaches a state from which get_articles_without_digest returns the
\* empty list for ever.
C30_DigestLoopDrains ==
    <>[](get_articles_without_digest(<<>>) = <<>>)

\* C30 witness: the loop has stored six digests, one per ready row of two ids
\* in three tables, and the get_articles_without_digest that followed returned
\* nothing.
C30_Witness ==
    /\ Cardinality(digests) = 6
    /\ last.op = "create_digest"
    /\ pc[Driver].arg = <<>>
    /\ get_articles_without_digest(<<>>) = <<>>

====
